---- MODULE Spec2Model ----
(***************************************************************************)
(* A model of behringer_mixer/mixer_base.py (class MixerBase): template    *)
(* expansion of the address table, the forward and reverse rewrite maps,   *)
(* the state-key derivation, the padding normaliser, the state mirror and  *)
(* its update list, the keepalive subscription worker and the reload /     *)
(* load_scene / set_value coroutines.                                      *)
(*                                                                         *)
(* Python strings are modelled as sequences of one-character strings, so   *)
(* that the regular expressions and the str methods of the source act on   *)
(* characters as they do in the program.  The single asyncio event loop is *)
(* modelled by one action per stretch of code between two awaits.          *)
(***************************************************************************)
EXTENDS Integers, Sequences, FiniteSets, TLC

(***************************************************************************)
(* Bounds of the model.                                                    *)
(***************************************************************************)
\* number of channels of the mixer type whose table is the rewrite example
NumChannels == 10
\* number of buses of the mixer type with plain fader / on entries
NumBus == 2

(***************************************************************************)
(* Python str helpers, on sequences of characters.                         *)
(***************************************************************************)
Digits == <<"0","1","2","3","4","5","6","7","8","9">>

IsDigit(c) == c \in {"0","1","2","3","4","5","6","7","8","9"}

IsLower(c) == c \in {"a","b","c","d","e","f","g","h","i","j","k","l","m",
                     "n","o","p","q","r","s","t","u","v","w","x","y","z"}

\* int(c) for a digit character
DigitVal(c) == (CHOOSE d \in 1..10 : Digits[d] = c) - 1

Min(S) == CHOOSE x \in S : \A y \in S : x <= y

Max(S) == CHOOSE x \in S : \A y \in S : x >= y

\* str(n) for a natural number
RECURSIVE Str(_)
Str(n) == IF n < 10 THEN <<Digits[n + 1]>>
          ELSE Str(n \div 10) \o <<Digits[(n % 10) + 1]>>

\* s.zfill(w) for a string of digits
Zfill(s, w) == IF Len(s) >= w THEN s ELSE [i \in 1..(w - Len(s)) |-> "0"] \o s

\* s[i-1:].startswith(p)  (i is 1-based)
StartsWithAt(s, p, i) ==
    /\ i + Len(p) - 1 <= Len(s)
    /\ SubSeq(s, i, i + Len(p) - 1) = p

StartsWith(s, p) == StartsWithAt(s, p, 1)

EndsWith(s, p) == Len(p) <= Len(s) /\ SubSeq(s, Len(s) - Len(p) + 1, Len(s)) = p

\* s.find(p, i-1) + 1: the first occurrence of p at or after s[i], 0 when none
Find(s, p, i) ==
    LET hits == {j \in i..(Len(s) - Len(p) + 1) : s[j] = p[1] /\ StartsWithAt(s, p, j)} IN
    IF hits = {} THEN 0 ELSE Min(hits)

\* s.replace(old, new): every non-overlapping occurrence, left to right
RECURSIVE ReplaceFrom(_, _, _, _)
ReplaceAt(s, old, new, i, j) ==
    IF j = 0 THEN SubSeq(s, i, Len(s))
    ELSE SubSeq(s, i, j - 1) \o new \o ReplaceFrom(s, old, new, j + Len(old))

ReplaceFrom(s, old, new, i) == ReplaceAt(s, old, new, i, Find(s, old, i))

Replace(s, old, new) == IF old = <<>> THEN s ELSE ReplaceFrom(s, old, new, 1)

\* length of the longest run of characters of a class that starts at s[i]
RECURSIVE DigitRun(_, _)
DigitRun(s, i) == IF i <= Len(s) /\ IsDigit(s[i]) THEN 1 + DigitRun(s, i + 1) ELSE 0

RECURSIVE LowerRun(_, _)
LowerRun(s, i) == IF i <= Len(s) /\ IsLower(s[i]) THEN 1 + LowerRun(s, i + 1) ELSE 0

RECURSIVE ZeroRun(_, _)
ZeroRun(s, i) == IF i <= Len(s) /\ s[i] = "0" THEN 1 + ZeroRun(s, i + 1) ELSE 0

\* a dict assignment d[k] = v
DictSet(d, k, v) == [x \in (DOMAIN d) \cup {k} |-> IF x = k THEN v ELSE d[x]]

EmptyDict == [x \in {} |-> <<>>]

(***************************************************************************)
(* Values.  A stored value is a record [kind, items]: a number (fader      *)
(* positions in hundredths, decibels in tenths), a bool (items is <<0>> or *)
(* <<1>>) or the tuple of a message with several arguments.                *)
(***************************************************************************)
Num(n) == [kind |-> "num", items |-> <<n>>]

Bool(b) == [kind |-> "bool", items |-> <<IF b THEN 1 ELSE 0>>]

Tuple(t) == [kind |-> "tuple", items |-> t]

\* Python truth value of a stored value
Truthy(v) == IF v.kind = "tuple" THEN Len(v.items) > 0 ELSE v.items[1] # 0

\* utils.fader_to_db: fader position (hundredths) to decibels (tenths)
fader_to_db(v) ==
    IF v.kind # "num" THEN [kind |-> "error", items |-> <<>>]
    ELSE LET f == v.items[1] IN
         Num(IF f >= 50 THEN 4 * f - 300
             ELSE IF f >= 25 THEN 8 * f - 500
             ELSE IF f >= 7 THEN 16 * f - 700
             ELSE 48 * f - 900)

\* utils.db_to_fader: decibels (tenths) to fader position (hundredths)
db_to_fader(v) ==
    IF v.kind # "num" THEN [kind |-> "error", items |-> <<>>]
    ELSE LET d == v.items[1] IN
         Num(IF d >= -100 THEN (d + 300) \div 4
             ELSE IF d >= -300 THEN (d + 500) \div 8
             ELSE IF d >= -600 THEN (d + 700) \div 16
             ELSE (d + 900) \div 48)

(***************************************************************************)
(* State of a MixerBase instance.                                          *)
(***************************************************************************)
VARIABLES
    addresses_to_load,    \* class attribute: rows <<address>> or <<address, rewrite>>
    attributes,           \* the integer count attributes getattr(self, name) finds
    _state,               \* the state mirror: canonical key -> value
    _rewrites,            \* forward rewrite map: concrete address -> rewritten address
    _rewrites_reverse,    \* reverse rewrite map, built on first need
    _valid_addresses,     \* concrete addresses the mirror may track
    _callback_function,   \* "None" or a callback
    _info_response,       \* the single slot for the last response
    loader,               \* the task running reload / load_scene
    caller,               \* the task running set_value / unsubscribe
    worker,               \* the tasks running subscribe
    asker,                \* the task running query / validate_connection
    receipt,              \* the last msg_handler call: its address, the update list,
                          \* the rows handed to the callback
    fn                    \* the last call of a pure helper and its result

vars == <<addresses_to_load, attributes, _state, _rewrites, _rewrites_reverse,
          _valid_addresses, _callback_function, _info_response,
          loader, caller, worker, asker, receipt, fn>>

None == "None"

(***************************************************************************)
(* _load_initial, lines 148-172: expansion of the address table.           *)
(***************************************************************************)
\* the regular expression \{(.*?)(:(\d)){0,1}\} tried at s[i] with a name of
\* L characters: with the width group, and without it
WithWidthAt(s, i, L) ==
    /\ s[i] = "{"
    /\ i + L + 3 <= Len(s)
    /\ s[i + L + 1] = ":"
    /\ IsDigit(s[i + L + 2])
    /\ s[i + L + 3] = "}"

NoWidthAt(s, i, L) ==
    /\ s[i] = "{"
    /\ i + L + 1 <= Len(s)
    /\ s[i + L + 1] = "}"

NameLengths(s, i) ==
    IF s[i] # "{" THEN {}
    ELSE {L \in 0..(Len(s) - i) : WithWidthAt(s, i, L) \/ NoWidthAt(s, i, L)}

NoMatch == [found |-> FALSE, group1 |-> <<>>, group2 |-> <<>>, group3 |-> <<>>]

\* the groups of a match at s[i] with a name of L characters: group 2 is
\* ":d" and group 3 is "d", both empty without a width
PlaceholderGroups(s, i, L) ==
    [found  |-> TRUE,
     group1 |-> SubSeq(s, i + 1, i + L),
     group2 |-> IF WithWidthAt(s, i, L) THEN SubSeq(s, i + L + 1, i + L + 2) ELSE <<>>,
     group3 |-> IF WithWidthAt(s, i, L) THEN <<s[i + L + 2]>> ELSE <<>>]

\* .*? is lazy: the shortest name that lets the rest match
PlaceholderAt(s, i) ==
    IF i = 0 THEN NoMatch ELSE PlaceholderGroups(s, i, Min(NameLengths(s, i)))

\* re.search tries the start positions from the left
PlaceholderStart(s) ==
    LET starts == {i \in 1..Len(s) : NameLengths(s, i) # {}} IN
    IF starts = {} THEN 0 ELSE Min(starts)

\* re.search(r"\{(.*?)(:(\d)){0,1}\}", address), line 152
SearchPlaceholder(s) == PlaceholderAt(s, PlaceholderStart(s))

\* getattr(self, name) raises AttributeError when self has no such attribute
HasAttr(name) == name \in DOMAIN attributes

\* int(matches.group(3) or 0) or len(str(max_count)), lines 156 and 259
ExplicitWidth(digit) == IF digit = <<>> THEN 0 ELSE DigitVal(digit[1])

\* a variant of ZfillNum that ignores the width a placeholder gives
ZfillNumNatural(digit, max_count) == Len(Str(max_count))

ZfillNum(digit, max_count) ==
    IF ExplicitWidth(digit) # 0 THEN ExplicitWidth(digit) ELSE Len(Str(max_count))

\* lines 158-161 and 164-167 for one number of range(1, max_count + 1)
Substitute(text, m, number, zfill_num) ==
    Replace(text, <<"{">> \o m.group1 \o m.group2 \o <<"}">>, Zfill(Str(number), zfill_num))

\* lines 157-168: the addresses of a templated row, in the order of the loop
NewAddresses(address, m, max_count, zfill_num) ==
    [number \in 1..max_count |-> Substitute(address, m, number, zfill_num)]

\* lines 163-168: self._rewrites[new_address] = new_rewrite_address for each
\* number in turn, a later number overwriting an earlier one
RegisterRewrites(rewrites, new, rewrite_address, m, zfill_num) ==
    [a \in (DOMAIN rewrites) \cup {new[n] : n \in DOMAIN new} |->
        IF \E n \in DOMAIN new : new[n] = a
        THEN Substitute(rewrite_address, m, Max({n \in DOMAIN new : new[n] = a}), zfill_num)
        ELSE rewrites[a]]

\* lines 154-168 with the count and the width resolved
ExpandMatched(address, rewrite_address, m, zfill_num, new, acc) ==
    [raised   |-> FALSE,
     expanded |-> acc.expanded \o new,
     rewrites |-> IF rewrite_address = <<>> THEN acc.rewrites
                  ELSE RegisterRewrites(acc.rewrites, new, rewrite_address, m, zfill_num)]

\* lines 153-172 for one row with the result m of the search;
\* acc is [raised, expanded, rewrites]
ExpandSearched(address, rewrite_address, m, acc) ==
    IF ~m.found
    THEN [raised   |-> FALSE,
          expanded |-> Append(acc.expanded, address),
          rewrites |-> IF rewrite_address # <<>>
                       THEN DictSet(acc.rewrites, address, rewrite_address)
                       ELSE acc.rewrites]
    ELSE IF ~HasAttr(m.group1)
    THEN [raised |-> TRUE, expanded |-> acc.expanded, rewrites |-> acc.rewrites]
    ELSE ExpandMatched(address, rewrite_address, m,
                       ZfillNum(m.group3, attributes[m.group1]),
                       NewAddresses(address, m, attributes[m.group1],
                                    ZfillNum(m.group3, attributes[m.group1])),
                       acc)

\* lines 150-172 for one row; a row without rewrite has rewrite_address None
ExpandRow(address_row, acc) ==
    ExpandSearched(address_row[1],
                   IF Len(address_row) > 1 THEN address_row[2] ELSE <<>>,
                   SearchPlaceholder(address_row[1]),
                   acc)

\* the for loop of lines 149-172 over rows i..Len(table); an AttributeError
\* leaves the loop, keeping the rewrites registered so far
RECURSIVE ExpandRows(_, _, _)
ExpandRows(table, i, acc) ==
    IF i > Len(table) \/ acc.raised THEN acc
    ELSE ExpandRows(table, i + 1, ExpandRow(table[i], acc))

\* lines 148-172: the expanded addresses and the rewrite map after them
LoadInitialExpand(rewrites) ==
    ExpandRows(addresses_to_load, 1,
               [raised |-> FALSE, expanded |-> <<>>, rewrites |-> rewrites])

(***************************************************************************)
(* _generate_state_key, lines 204-222, and the re.sub of line 195.         *)
(***************************************************************************)
\* the end of a run of n characters after lit that "/" closes, 0 otherwise
RunEnd(address, lit, n) ==
    IF n >= 1 /\ Len(lit) + n + 1 <= Len(address) /\ address[Len(lit) + n + 1] = "/"
    THEN Len(lit) + n + 1 ELSE 0

\* re.match(r"^<lit>\d+/", address) / re.match(r"^<lit>[a-z]+/", address):
\* the end of the match, 0 when there is none
MatchEnd(address, lit, digits) ==
    IF ~StartsWith(address, lit) THEN 0
    ELSE RunEnd(address, lit, IF digits THEN DigitRun(address, Len(lit) + 1)
                              ELSE LowerRun(address, Len(lit) + 1))

prefixes == << [lit |-> <<"/","c","h","/">>,    digits |-> TRUE],
               [lit |-> <<"/","a","u","x","i","n","/">>, digits |-> TRUE],
               [lit |-> <<"/","b","u","s","/">>,   digits |-> TRUE],
               [lit |-> <<"/","d","c","a","/">>,   digits |-> TRUE],
               [lit |-> <<"/","m","t","x","/">>,   digits |-> TRUE],
               [lit |-> <<"/","m","a","i","n","/">>,  digits |-> FALSE] >>

\* lines 218-221: the matched prefix, and the rest with "/" turned into "_"
KeyAt(address, e) ==
    SubSeq(address, 1, e) \o Replace(SubSeq(address, e + 1, Len(address)), <<"/">>, <<"_">>)

\* the first prefix of the list that matches, 0 when none does
FirstPrefix(address) ==
    LET hits == {i \in 1..Len(prefixes) :
                    MatchEnd(address, prefixes[i].lit, prefixes[i].digits) > 0}
    IN  IF hits = {} THEN 0 ELSE Min(hits)

KeyWith(address, i) ==
    IF i = 0 THEN address
    ELSE KeyAt(address, MatchEnd(address, prefixes[i].lit, prefixes[i].digits))

_generate_state_key(address) == KeyWith(address, FirstPrefix(address))

\* re.sub(r"/0+(\d+)/", r"/\1/", state_key): a segment of two or more digits
\* that starts with 0 and is closed by "/" loses its leading zeros (all but
\* the last digit when it is all zeros); the scan goes on after the closing "/"
StripHit(s, i) ==
    /\ s[i] = "/"
    /\ i + 1 <= Len(s)
    /\ s[i + 1] = "0"
    /\ DigitRun(s, i + 1) >= 2
    /\ i + DigitRun(s, i + 1) + 1 <= Len(s)
    /\ s[i + DigitRun(s, i + 1) + 1] = "/"

FirstStripHit(s, i) ==
    LET hits == {j \in i..Len(s) : StripHit(s, j)} IN
    IF hits = {} THEN 0 ELSE Min(hits)

RECURSIVE StripFrom(_, _)
\* the match at s[j] of n digits, z of them leading zeros
StripAt(s, i, j, n, z) ==
    IF j = 0 THEN SubSeq(s, i, Len(s))
    ELSE SubSeq(s, i, j) \o SubSeq(s, j + 1 + (IF z = n THEN n - 1 ELSE z), j + n)
           \o <<"/">> \o StripFrom(s, j + n + 2)

StripNext(s, i, j) ==
    StripAt(s, i, j, IF j = 0 THEN 0 ELSE DigitRun(s, j + 1),
                     IF j = 0 THEN 0 ELSE ZeroRun(s, j + 1))

StripFrom(s, i) == StripNext(s, i, FirstStripHit(s, i))

StripPadding(state_key) == StripFrom(state_key, 1)

(***************************************************************************)
(* _update_state, lines 177-202.                                           *)
(***************************************************************************)
UpdateRow(property, value) == [property |-> property, value |-> value]

\* a variant of StoreUpdate that derives the decibel key only when the mirror
\* has none yet
StoreUpdateKeepsDb(state_key, value) ==
    IF EndsWith(state_key, <<"_","f","a","d","e","r">>) /\ (state_key \o <<"_","d","b">>) \notin DOMAIN _state
    THEN [state   |-> DictSet(DictSet(_state, state_key, value),
                              state_key \o <<"_","d","b">>, fader_to_db(value)),
          updates |-> <<UpdateRow(state_key, value),
                        UpdateRow(state_key \o <<"_","d","b">>, fader_to_db(value))>>]
    ELSE [state   |-> DictSet(_state, state_key, value),
          updates |-> <<UpdateRow(state_key, value)>>]

\* a variant of StoreUpdate that writes the decibel key without reporting it
StoreUpdateUnreported(state_key, value) ==
    IF EndsWith(state_key, <<"_","f","a","d","e","r">>)
    THEN [state   |-> DictSet(DictSet(_state, state_key, value),
                              state_key \o <<"_","d","b">>, fader_to_db(value)),
          updates |-> <<UpdateRow(state_key, value)>>]
    ELSE [state   |-> DictSet(_state, state_key, value),
          updates |-> <<UpdateRow(state_key, value)>>]

\* lines 196-201: the writes of the mirror and the update list
StoreUpdate(state_key, value) ==
    IF EndsWith(state_key, <<"_","f","a","d","e","r">>)
    THEN [state   |-> DictSet(DictSet(_state, state_key, value),
                              state_key \o <<"_","d","b">>, fader_to_db(value)),
          updates |-> <<UpdateRow(state_key, value),
                        UpdateRow(state_key \o <<"_","d","b">>, fader_to_db(value))>>]
    ELSE [state   |-> DictSet(_state, state_key, value),
          updates |-> <<UpdateRow(state_key, value)>>]

\* lines 188-190
MessageValue(values) == IF Len(values) > 1 THEN Tuple(values) ELSE Num(values[1])

\* lines 193-194
CoerceOn(state_key, value) ==
    IF EndsWith(state_key, <<"_","o","n">>) \/ EndsWith(state_key, <<"/","o","n">>)
    THEN Bool(Truthy(value)) ELSE value

\* lines 192-202 with the key of line 187
UpdateKey(state_key, values) ==
    IF state_key = <<>> THEN [state |-> _state, updates |-> <<>>]
    ELSE StoreUpdate(StripPadding(state_key), CoerceOn(state_key, MessageValue(values)))

\* a variant of RewriteKey that takes the key from the wire address
RewriteKeyIgnored(address) == address

\* lines 184-186: self._rewrites.get(address), used when it is not empty
RewriteKey(address) ==
    IF address \in DOMAIN _rewrites /\ _rewrites[address] # <<>>
    THEN _rewrites[address] ELSE address

\* a variant of _update_state without the test of lines 182-183
UpdateStateUnchecked(address, values) ==
    UpdateKey(_generate_state_key(RewriteKey(address)), values)

_update_state(address, values) ==
    IF address \notin _valid_addresses
    THEN [state |-> _state, updates |-> <<>>]
    ELSE UpdateKey(_generate_state_key(RewriteKey(address)), values)

(***************************************************************************)
(* _redo_padding, lines 248-266.                                           *)
(***************************************************************************)
\* the end of the name: the letters after "/{num_" at s[k+1] run up to s[p-1]
NameEnd(s, k) == k + 7 + LowerRun(s, k + 7)

\* the regular expression ^(.*)/{(num_[a-z]+?)(:(\d)){0,1}} with group 1 of k
\* characters and ":d}" or "}" at s[p]
PaddingTail(s, k, p) ==
    /\ p > k + 7
    /\ p <= Len(s)
    /\ \/ s[p] = "}"
       \/ p + 2 <= Len(s) /\ s[p] = ":" /\ IsDigit(s[p + 1]) /\ s[p + 2] = "}"

PaddingMatchAt(s, k) ==
    /\ k + 1 <= Len(s)
    /\ s[k + 1] = "/"
    /\ StartsWithAt(s, <<"/","{","n","u","m","_">>, k + 1)
    /\ PaddingTail(s, k, NameEnd(s, k))

NoPadding == [found |-> FALSE, group1 |-> <<>>, group2 |-> <<>>, group4 |-> <<>>]

PaddingGroups(s, k, p) ==
    [found  |-> TRUE,
     group1 |-> SubSeq(s, 1, k),
     group2 |-> SubSeq(s, k + 3, p - 1),
     group4 |-> IF s[p] = ":" THEN <<s[p + 1]>> ELSE <<>>]

\* (.*) is greedy: the longest group 1 that lets the rest match, -1 when none
PaddingStart(s) ==
    LET ks == {k \in 0..Len(s) : PaddingMatchAt(s, k)} IN
    IF ks = {} THEN -1 ELSE Max(ks)

PaddingAt(s, k) == IF k < 0 THEN NoPadding ELSE PaddingGroups(s, k, NameEnd(s, k))

\* re.search(r"^(.*)/{(num_[a-z]+?)(:(\d)){0,1}}", initial_address), line 254
SearchPadding(initial_address) == PaddingAt(initial_address, PaddingStart(initial_address))

\* re.search(r"^" + init_string + r"/(\d+)/", address), line 260, with n the
\* digits after init_string + "/"
SubMatch(address, init_string, n) ==
    /\ StartsWithAt(address, <<"/">>, Len(init_string) + 1)
    /\ n >= 1
    /\ Len(init_string) + 2 + n <= Len(address)
    /\ address[Len(init_string) + 2 + n] = "/"

\* lines 262-265
PadIndex(address, init_string, num, zfill_num) ==
    Replace(address,
            init_string \o <<"/">> \o num \o <<"/">>,
            init_string \o <<"/">> \o Zfill(num, zfill_num) \o <<"/">>)

\* lines 257-265 with the match m of line 254 and the n digits of the index.
\* getattr raises on an unknown name and sub_match.group raises when
\* re.search found no index
RedoMatched(m, address, n) ==
    IF ~m.found \/ ~StartsWith(address, m.group1)
    THEN [raised |-> FALSE, address |-> address]
    ELSE IF ~HasAttr(m.group2) \/ ~SubMatch(address, m.group1, n)
    THEN [raised |-> TRUE, address |-> address]
    ELSE [raised  |-> FALSE,
          address |-> PadIndex(address, m.group1,
                               SubSeq(address, Len(m.group1) + 2, Len(m.group1) + 1 + n),
                               ZfillNum(m.group4, attributes[m.group2]))]

RedoSearched(m, address) == RedoMatched(m, address, DigitRun(address, Len(m.group1) + 2))

\* lines 253-265 for one row
RedoRow(address_row, address) == RedoSearched(SearchPadding(address_row[1]), address)

\* the for loop of lines 252-265 over rows i..Len(table); acc is [raised, address]
RECURSIVE RedoRows(_, _, _)
RedoRows(table, i, acc) ==
    IF i > Len(table) \/ acc.raised THEN acc
    ELSE RedoRows(table, i + 1, RedoRow(table[i], acc.address))

_redo_padding(address) ==
    RedoRows(addresses_to_load, 1, [raised |-> FALSE, address |-> address])

(***************************************************************************)
(* _build_reverse_rewrite, lines 224-227, and set_value, lines 231-243.    *)
(***************************************************************************)
\* {v: k for k, v in self._rewrites.items()}; the tables of the model give
\* every rewritten address one source
Invert(rewrites) ==
    [v \in {rewrites[k] : k \in DOMAIN rewrites} |->
        CHOOSE k \in DOMAIN rewrites : rewrites[k] = v]

\* a variant of _build_reverse_rewrite that builds the map in the first call of
\* set_value only
BuildReverseFirstCall ==
    IF caller.op = "none" THEN Invert(_rewrites) ELSE _rewrites_reverse

\* a variant of _build_reverse_rewrite that never builds the map
BuildReverseKept == _rewrites_reverse

\* the reverse map after a call of _build_reverse_rewrite
_build_reverse_rewrite ==
    IF _rewrites_reverse = EmptyDict THEN Invert(_rewrites) ELSE _rewrites_reverse

\* lines 231-232 and 238
SetValueAddress(address) ==
    Replace(IF EndsWith(address, <<"_","d","b">>) THEN Replace(address, <<"_","d","b">>, <<>>) ELSE address,
            <<"_">>, <<"/">>)

\* lines 234-237
BoolToInt(value) == IF value.kind = "bool" THEN Num(value.items[1]) ELSE value

\* lines 233-237
SetValueValue(address, value) ==
    BoolToInt(IF EndsWith(address, <<"_","d","b">>) THEN db_to_fader(value) ELSE value)

\* lines 241-243: self._rewrites_reverse.get(address), used when it is not empty
ReverseKey(rev, address) ==
    IF address \in DOMAIN rev /\ rev[address] # <<>> THEN rev[address] ELSE address

Resolved(pad, value, rev) ==
    [raised |-> pad.raised, address |-> ReverseKey(rev, pad.address), value |-> value,
     reverse |-> rev]

\* lines 231-243: the wire address and the value set_value sends, and the
\* reverse map after line 240; raised when _redo_padding raised
ResolveSetValue(address, value) ==
    Resolved(_redo_padding(SetValueAddress(address)), SetValueValue(address, value),
             _build_reverse_rewrite)

(***************************************************************************)
(* Configuration a specialisation supplies: the address table, the count   *)
(* attributes and the scene-load command.                                  *)
(***************************************************************************)
cmd_scene_load == <<"/","-","a","c","t","i","o","n","/","g","o","s","c","e","n","e">>

NumChannelsName == <<"n","u","m","_","c","h","a","n","n","e","l","s">>

NumBusName == <<"n","u","m","_","b","u","s">>

\* the mixer type of the rewrite example: one templated row with a rewrite
ExampleTable ==
    << << <<"/","c","h","/","{","n","u","m","_","c","h","a","n","n","e","l","s","}","/","m","i","x","/","f","a","d","e","r">>, <<"/","c","h","/","{","n","u","m","_","c","h","a","n","n","e","l","s","}","/","f","a","d","e","r","/","l","e","v","e","l">> >> >>

\* a mixer type with plain templated rows and a rewritten row without template
BusTable ==
    << << <<"/","b","u","s","/","{","n","u","m","_","b","u","s","}","/","m","i","x","/","f","a","d","e","r">> >>,
       << <<"/","b","u","s","/","{","n","u","m","_","b","u","s","}","/","m","i","x","/","o","n">> >>,
       << <<"/","l","r","/","m","i","x","/","f","a","d","e","r">>, <<"/","m","a","i","n","/","s","t","/","m","i","x","/","f","a","d","e","r">> >> >>

\* a table with a row without a closing brace and a row naming num_fx, which
\* is no attribute of the client
BadTable ==
    << << <<"/","l","r","/","m","i","x","/","f","a","d","e","r">>, <<"/","m","a","i","n","/","s","t","/","m","i","x","/","f","a","d","e","r">> >>,
       << <<"/","f","x","/","{","n","u","m","_","f","x","/","t","y","p","e">> >>,
       << <<"/","f","x","/","{","n","u","m","_","f","x","}","/","t","y","p","e">> >>,
       << <<"/","b","u","s","/","{","n","u","m","_","b","u","s","}","/","m","i","x","/","o","n">> >> >>

Counts == [n \in {NumChannelsName, NumBusName} |->
             IF n = NumChannelsName THEN NumChannels ELSE NumBus]

MixerType(table) == [addresses_to_load |-> table, attributes |-> Counts]

(***************************************************************************)
(* Inputs: the messages the device sends, the calls of set_value, the      *)
(* callbacks.  A message carries at least one argument, and a fader        *)
(* address carries exactly one number.                                     *)
(***************************************************************************)
Msg(addr, values) == [addr |-> addr, values |-> values]

\* messages of the synchronisation runs
Messages ==
    { Msg(<<"/","b","u","s","/","1","/","m","i","x","/","f","a","d","e","r">>, <<75>>),
      Msg(<<"/","b","u","s","/","1","/","m","i","x","/","f","a","d","e","r">>, <<10>>),
      Msg(<<"/","b","u","s","/","2","/","m","i","x","/","o","n">>, <<0, 1>>),
      Msg(<<"/","l","r","/","m","i","x","/","f","a","d","e","r">>, <<75>>),
      Msg(<<"/","n","o","p","e">>, <<1>>) }

\* messages of the subscription runs
SubscriptionMessages ==
    { Msg(<<"/","b","u","s","/","1","/","m","i","x","/","f","a","d","e","r">>, <<75>>),
      Msg(<<"/","b","u","s","/","2","/","m","i","x","/","o","n">>, <<1>>),
      Msg(<<"/","n","o","p","e">>, <<1>>) }

\* messages of the rewrite example
ExampleMessages ==
    { Msg(<<"/","c","h","/","0","1","/","m","i","x","/","f","a","d","e","r">>, <<75>>),
      Msg(<<"/","c","h","/","1","0","/","m","i","x","/","f","a","d","e","r">>, <<10>>),
      Msg(<<"/","c","h","/","1","/","m","i","x","/","f","a","d","e","r">>, <<75>>) }

Call(address, value) == [address |-> address, value |-> value]

SetValueCalls ==
    { Call(<<"/","b","u","s","/","1","/","m","i","x","_","f","a","d","e","r">>, Num(10)),
      Call(<<"/","b","u","s","/","1","/","m","i","x","_","f","a","d","e","r","_","d","b">>, Num(0)),
      Call(<<"/","b","u","s","/","2","/","m","i","x","_","o","n">>, Bool(TRUE)),
      Call(<<"/","m","a","i","n","/","s","t","/","m","i","x","_","f","a","d","e","r">>, Num(75)),
      Call(<<"/","b","u","s","/","m","i","x","_","f","a","d","e","r">>, Num(75)) }

ExampleCalls ==
    { Call(<<"/","c","h","/","1","/","f","a","d","e","r","_","l","e","v","e","l">>, Num(75)) }

\* messages of the query runs: an answer of one value and an answer of four
QueryMessages ==
    { Msg(<<"/","b","u","s","/","1","/","m","i","x","/","f","a","d","e","r">>, <<75>>),
      Msg(<<"/","x","i","n","f","o">>, <<1, 2, 3, 4>>) }

\* the arguments of query
QueryAddresses == { <<"/","b","u","s","/","1","/","m","i","x","/","f","a","d","e","r">> }

\* the arguments of load_scene
SceneNumbers == {5}

Callbacks == {"callback"}

Workers == {1, 2}

(***************************************************************************)
(* send, lines 87-92: the message goes to the transport and the response   *)
(* slot is reset; the await of line 92 ends the step.                      *)
(***************************************************************************)
NoParam == [kind |-> "none", items |-> <<>>]

Sent(addr, param) == [addr |-> addr, param |-> param]

\* self._info_response = None
NoResponse == [kind |-> "none", items |-> <<>>]

IdleLoader == [pc |-> "idle", op |-> "none", expanded |-> <<>>, idx |-> 0, sent |-> <<>>]

IdleCaller == [pc |-> "idle", op |-> "none", address |-> <<>>, sent |-> <<>>]

IdleWorker == [pc |-> "idle", parameter_string |-> <<>>, sent |-> <<>>, stale |-> 0,
               renewed |-> FALSE]

\* result is what the coroutine returned; heard is the set of the values of
\* the messages received since the coroutine's send
IdleAsker == [pc |-> "idle", op |-> "none", address |-> <<>>, result |-> NoResponse,
              heard |-> {}]

NoReceipt == [addr |-> <<>>, updates |-> <<>>, notified |-> <<>>]

NoCall == [op |-> "none", arg |-> <<>>, raised |-> FALSE, address |-> <<>>,
           expanded |-> <<>>, rewrites |-> EmptyDict]

(***************************************************************************)
(* __init__, lines 26-41, and the class attributes of lines 19-24.         *)
(***************************************************************************)
InitClient ==
    /\ _state = EmptyDict
    /\ _rewrites = EmptyDict
    /\ _rewrites_reverse = EmptyDict
    /\ _valid_addresses = {}
    /\ _callback_function = None
    /\ _info_response = Tuple(<<>>)
    /\ loader = IdleLoader
    /\ caller = IdleCaller
    /\ worker = [w \in Workers |-> IdleWorker]
    /\ asker = IdleAsker
    /\ receipt = NoReceipt
    /\ fn = NoCall

InitMixer(types) ==
    /\ \E t \in types :
          /\ addresses_to_load = t.addresses_to_load
          /\ attributes = t.attributes
    /\ InitClient

Init == InitMixer({MixerType(BusTable), MixerType(BadTable)})

config == <<addresses_to_load, attributes, fn>>

(***************************************************************************)
(* reload, load_scene and _load_initial, lines 131-175.                    *)
(***************************************************************************)
\* the first pass of the loop of lines 173-175 with the result e of the
\* expansion; sent is what the coroutine sent before
LoadInitialLoop(op, sent, e) ==
    /\ _rewrites' = e.rewrites
    /\ IF e.raised
       THEN /\ loader' = [pc |-> "raised", op |-> op, expanded |-> <<>>, idx |-> 0,
                          sent |-> sent]
            /\ UNCHANGED <<_valid_addresses, _info_response>>
       ELSE IF e.expanded = <<>>
       THEN /\ loader' = [pc |-> "idle", op |-> op, expanded |-> <<>>, idx |-> 0,
                          sent |-> sent]
            /\ UNCHANGED <<_valid_addresses, _info_response>>
       ELSE /\ _valid_addresses' = _valid_addresses \cup {e.expanded[1]}
            /\ _info_response' = NoResponse
            /\ loader' = [pc |-> "loading", op |-> op, expanded |-> e.expanded, idx |-> 1,
                          sent |-> Append(sent, Sent(e.expanded[1], NoParam))]

\* _load_initial up to its first await: the expansion, and the first pass of
\* the loop of lines 173-175
LoadInitialStart(op, sent) == LoadInitialLoop(op, sent, LoadInitialExpand(_rewrites))

\* reload: lines 143-144 and _load_initial up to the first await
Reload ==
    /\ loader.pc \in {"idle", "raised"}
    /\ _state' = EmptyDict
    /\ LoadInitialStart("reload", <<>>)
    /\ UNCHANGED <<config, asker, _rewrites_reverse, _callback_function, caller, worker, receipt>>

\* load_scene: line 133 up to the awaits of lines 92 and 138
LoadScene(scene_number) ==
    /\ loader.pc \in {"idle", "raised"}
    /\ _info_response' = NoResponse
    /\ loader' = [pc |-> "settle", op |-> "load_scene", expanded |-> <<>>, idx |-> 0,
                  sent |-> <<Sent(cmd_scene_load, Num(scene_number))>>]
    /\ UNCHANGED <<config, asker, _state, _rewrites, _rewrites_reverse, _valid_addresses,
                   _callback_function, caller, worker, receipt>>

\* load_scene: line 139 after the settle delay, _load_initial up to its first await
LoadSceneSettled ==
    /\ loader.pc = "settle"
    /\ LoadInitialStart("load_scene", loader.sent)
    /\ UNCHANGED <<config, asker, _state, _rewrites_reverse, _callback_function, caller, worker,
                   receipt>>

\* a variant of LoadInitialNext whose loop ends before the last address
LoadInitialNextShort ==
    /\ loader.pc = "loading"
    /\ IF loader.idx + 1 < Len(loader.expanded)
       THEN LET address == loader.expanded[loader.idx + 1] IN
            /\ _valid_addresses' = _valid_addresses \cup {address}
            /\ _info_response' = NoResponse
            /\ loader' = [loader EXCEPT !.idx = @ + 1,
                                        !.sent = Append(@, Sent(address, NoParam))]
       ELSE /\ loader' = [loader EXCEPT !.pc = "idle"]
            /\ UNCHANGED <<_valid_addresses, _info_response>>
    /\ UNCHANGED <<config, asker, _state, _rewrites, _rewrites_reverse, _callback_function,
                   caller, worker, receipt>>

\* a variant of LoadInitialNext that queries the next address without marking
\* it valid
LoadInitialNextUnmarked ==
    /\ loader.pc = "loading"
    /\ IF loader.idx < Len(loader.expanded)
       THEN /\ _info_response' = NoResponse
            /\ loader' = [loader EXCEPT !.idx = @ + 1,
                                        !.sent = Append(@, Sent(loader.expanded[loader.idx + 1],
                                                                NoParam))]
       ELSE /\ loader' = [loader EXCEPT !.pc = "idle"]
            /\ UNCHANGED _info_response
    /\ UNCHANGED <<config, asker, _state, _rewrites, _rewrites_reverse, _valid_addresses,
                   _callback_function, caller, worker, receipt>>

\* the loop of lines 173-175 after the await of a send: the next address is
\* marked valid and queried, or the coroutine returns
LoadInitialNext ==
    /\ loader.pc = "loading"
    /\ IF loader.idx < Len(loader.expanded)
       THEN LET address == loader.expanded[loader.idx + 1] IN
            /\ _valid_addresses' = _valid_addresses \cup {address}
            /\ _info_response' = NoResponse
            /\ loader' = [loader EXCEPT !.idx = @ + 1,
                                        !.sent = Append(@, Sent(address, NoParam))]
       ELSE /\ loader' = [loader EXCEPT !.pc = "idle"]
            /\ UNCHANGED <<_valid_addresses, _info_response>>
    /\ UNCHANGED <<config, asker, _state, _rewrites, _rewrites_reverse, _callback_function,
                   caller, worker, receipt>>

(***************************************************************************)
(* set_value, lines 229-246, and query, lines 94-97.                       *)
(***************************************************************************)
\* line 244 up to the await of the send, with the result r of lines 231-243;
\* an exception of _redo_padding leaves set_value before line 240
SetValueSend(r) ==
    /\ caller.pc \in {"idle", "raised"}
    /\ IF r.raised
       THEN /\ caller' = [pc |-> "raised", op |-> "set_value", address |-> <<>>,
                          sent |-> <<>>]
            /\ UNCHANGED <<_rewrites_reverse, _info_response>>
       ELSE /\ _rewrites_reverse' = r.reverse
            /\ _info_response' = NoResponse
            /\ caller' = [pc |-> "sv_sent", op |-> "set_value", address |-> r.address,
                          sent |-> <<Sent(r.address, r.value)>>]
    /\ UNCHANGED <<config, asker, _state, _rewrites, _valid_addresses, _callback_function,
                   loader, worker, receipt>>

\* set_value, lines 231-244 up to the await of the first send
SetValue(address, value) == SetValueSend(ResolveSetValue(address, value))

\* line 245: query(address) sends the address without a value
SetValueQuery ==
    /\ caller.pc = "sv_sent"
    /\ _info_response' = NoResponse
    /\ caller' = [caller EXCEPT !.pc = "sv_query",
                                !.sent = Append(@, Sent(caller.address, NoParam))]
    /\ UNCHANGED <<config, asker, _state, _rewrites, _rewrites_reverse, _valid_addresses,
                   _callback_function, loader, worker, receipt>>

\* a variant of SetValueReturn with the update of line 246 in force: the sent
\* value is written to the mirror
SetValueReturnUpdates ==
    /\ caller.pc = "sv_query"
    /\ caller' = [caller EXCEPT !.pc = "idle"]
    /\ _state' = _update_state(caller.address, caller.sent[1].param.items).state
    /\ UNCHANGED <<config, asker, _rewrites, _rewrites_reverse, _valid_addresses,
                   _callback_function, _info_response, loader, worker, receipt>>

\* query returns the response slot, set_value drops it and returns
SetValueReturn ==
    /\ caller.pc = "sv_query"
    /\ caller' = [caller EXCEPT !.pc = "idle"]
    /\ UNCHANGED <<config, asker, _state, _rewrites, _rewrites_reverse, _valid_addresses,
                   _callback_function, _info_response, loader, worker, receipt>>

(***************************************************************************)
(* subscribe, _subscribe_worker and unsubscribe, lines 99-118.             *)
(***************************************************************************)
\* a variant of RenewString that renews every subscription with /renew
RenewStringPlain(parameter_string) == <<"/","r","e","n","e","w">>

\* lines 106-108
RenewString(parameter_string) ==
    IF parameter_string = <<"/","x","r","e","m","o","t","e">> THEN <<"/","x","r","e","m","o","t","e">> ELSE <<"/","r","e","n","e","w">>

\* lines 104-105 up to the await of the send.  The callback is set again, so
\* the count of wakes with the callback cleared starts again for every worker.
SubscribeWorker(w, parameter_string, callback_function) ==
    /\ worker[w].pc \in {"idle", "done"}
    /\ _callback_function' = callback_function
    /\ _info_response' = NoResponse
    /\ worker' = [v \in Workers |->
                    IF v = w
                    THEN [pc |-> "sent", parameter_string |-> parameter_string,
                          sent |-> Sent(parameter_string, NoParam), stale |-> 0,
                          renewed |-> FALSE]
                    ELSE [worker[v] EXCEPT !.stale = 0]]
    /\ UNCHANGED <<config, asker, _state, _rewrites, _rewrites_reverse, _valid_addresses,
                   loader, caller, receipt>>

\* subscribe, line 101
Subscribe(w, callback_function) == SubscribeWorker(w, <<"/","x","r","e","m","o","t","e">>, callback_function)

\* a variant of WorkerCheck whose loop never tests the callback
WorkerCheckForever(w) ==
    /\ worker[w].pc = "sent"
    /\ worker' = [worker EXCEPT ![w].pc = "sleep"]
    /\ UNCHANGED <<config, asker, _state, _rewrites, _rewrites_reverse, _valid_addresses,
                   _callback_function, _info_response, loader, caller, receipt>>

\* line 109 after the await of a send: the loop goes on to its sleep while a
\* callback is set, and the worker returns otherwise
WorkerCheck(w) ==
    /\ worker[w].pc = "sent"
    /\ worker' = [worker EXCEPT ![w].pc =
                    IF _callback_function # None THEN "sleep" ELSE "done"]
    /\ UNCHANGED <<config, asker, _state, _rewrites, _rewrites_reverse, _valid_addresses,
                   _callback_function, _info_response, loader, caller, receipt>>

\* lines 110-111: the sleep of the keepalive interval ends and the renew
\* command is sent.  stale counts the wakes with the callback cleared, and
\* renewed tells the renew command from the command of line 105.
WorkerWake(w) ==
    /\ worker[w].pc = "sleep"
    /\ _info_response' = NoResponse
    /\ worker' = [worker EXCEPT
                    ![w].pc = "sent",
                    ![w].sent = Sent(RenewString(worker[w].parameter_string), NoParam),
                    ![w].stale = IF _callback_function = None THEN @ + 1 ELSE @,
                    ![w].renewed = TRUE]
    /\ UNCHANGED <<config, asker, _state, _rewrites, _rewrites_reverse, _valid_addresses,
                   _callback_function, loader, caller, receipt>>

\* unsubscribe, line 116 up to the await of the send
Unsubscribe ==
    /\ caller.pc \in {"idle", "raised"}
    /\ _info_response' = NoResponse
    /\ caller' = [pc |-> "un_sent", op |-> "unsubscribe", address |-> <<>>,
                  sent |-> <<Sent(<<"/","u","n","s","u","b","s","c","r","i","b","e">>, NoParam)>>]
    /\ UNCHANGED <<config, asker, _state, _rewrites, _rewrites_reverse, _valid_addresses,
                   _callback_function, loader, worker, receipt>>

\* unsubscribe, lines 117-118
UnsubscribeReturn ==
    /\ caller.pc = "un_sent"
    /\ _callback_function' = None
    /\ caller' = [caller EXCEPT !.pc = "idle"]
    /\ UNCHANGED <<config, asker, _state, _rewrites, _rewrites_reverse, _valid_addresses,
                   _info_response, loader, worker, receipt>>

(***************************************************************************)
(* query, lines 94-97, and validate_connection, lines 43-57.               *)
(***************************************************************************)
\* a variant of Query whose send leaves the response slot as it is
QueryKeepsSlot(address) ==
    /\ asker.pc \in {"idle", "raised"}
    /\ asker' = [pc |-> "sent", op |-> "query", address |-> address,
                 result |-> NoResponse, heard |-> {}]
    /\ UNCHANGED <<config, _state, _rewrites, _rewrites_reverse, _valid_addresses,
                   _callback_function, _info_response, loader, caller, worker, receipt>>

\* query: line 96 up to the await of the send
Query(address) ==
    /\ asker.pc \in {"idle", "raised"}
    /\ _info_response' = NoResponse
    /\ asker' = [pc |-> "sent", op |-> "query", address |-> address,
                 result |-> NoResponse, heard |-> {}]
    /\ UNCHANGED <<config, _state, _rewrites, _rewrites_reverse, _valid_addresses,
                   _callback_function, loader, caller, worker, receipt>>

\* query, line 97: the response slot is returned
QueryReturn ==
    /\ asker.op = "query"
    /\ asker.pc = "sent"
    /\ asker' = [asker EXCEPT !.pc = "idle", !.result = _info_response]
    /\ UNCHANGED <<config, _state, _rewrites, _rewrites_reverse, _valid_addresses,
                   _callback_function, _info_response, loader, caller, worker, receipt>>

\* validate_connection: line 45 up to the await of the send
ValidateConnection ==
    /\ asker.pc \in {"idle", "raised"}
    /\ _info_response' = NoResponse
    /\ asker' = [pc |-> "sent", op |-> "validate_connection", address |-> <<"/","x","i","n","f","o">>,
                 result |-> NoResponse, heard |-> {}]
    /\ UNCHANGED <<config, _state, _rewrites, _rewrites_reverse, _valid_addresses,
                   _callback_function, loader, caller, worker, receipt>>

\* validate_connection: the await of line 46
ValidateWait ==
    /\ asker.op = "validate_connection"
    /\ asker.pc = "sent"
    /\ asker' = [asker EXCEPT !.pc = "wait"]
    /\ UNCHANGED <<config, _state, _rewrites, _rewrites_reverse, _valid_addresses,
                   _callback_function, _info_response, loader, caller, worker, receipt>>

\* lines 47-57: False for an empty slot; the arguments of the debug call index
\* the response, which raises IndexError when it has fewer than three values
ValidateReturn ==
    /\ asker.op = "validate_connection"
    /\ asker.pc = "wait"
    /\ asker' = IF _info_response.items = <<>>
                THEN [asker EXCEPT !.pc = "idle", !.result = Bool(FALSE)]
                ELSE IF Len(_info_response.items) < 3
                THEN [asker EXCEPT !.pc = "raised"]
                ELSE [asker EXCEPT !.pc = "idle", !.result = Bool(TRUE)]
    /\ UNCHANGED <<config, _state, _rewrites, _rewrites_reverse, _valid_addresses,
                   _callback_function, _info_response, loader, caller, worker, receipt>>

\* a message received while the coroutine waits between its send and its
\* return is added to heard
Heard(msg) ==
    IF asker.pc \in {"sent", "wait"}
    THEN [asker EXCEPT !.heard = @ \cup {Tuple(msg.values)}]
    ELSE asker

(***************************************************************************)
(* msg_handler, lines 76-85.                                               *)
(***************************************************************************)
\* a variant of Dispatch that fills the response slot in both modes
DispatchAlsoStores(msg, r) ==
    /\ _state' = r.state
    /\ receipt' = [addr |-> msg.addr, updates |-> r.updates,
                   notified |-> IF _callback_function # None THEN r.updates ELSE <<>>]
    /\ _info_response' = Tuple(msg.values)
    /\ asker' = Heard(msg)
    /\ UNCHANGED <<config, _rewrites, _rewrites_reverse, _valid_addresses,
                   _callback_function, loader, caller, worker>>

\* a variant of Dispatch that takes the callback branch only when there is
\* something to report
DispatchStoresUnreported(msg, r) ==
    /\ _state' = r.state
    /\ IF _callback_function # None /\ r.updates # <<>>
       THEN /\ receipt' = [addr |-> msg.addr, updates |-> r.updates, notified |-> r.updates]
            /\ UNCHANGED _info_response
       ELSE /\ receipt' = [addr |-> msg.addr, updates |-> r.updates, notified |-> <<>>]
            /\ _info_response' = Tuple(msg.values)
    /\ asker' = Heard(msg)
    /\ UNCHANGED <<config, _rewrites, _rewrites_reverse, _valid_addresses,
                   _callback_function, loader, caller, worker>>

\* lines 81-85 with the result r of _update_state
Dispatch(msg, r) ==
    /\ _state' = r.state
    /\ IF _callback_function # None
       THEN /\ receipt' = [addr |-> msg.addr, updates |-> r.updates, notified |-> r.updates]
            /\ UNCHANGED _info_response
       ELSE /\ receipt' = [addr |-> msg.addr, updates |-> r.updates, notified |-> <<>>]
            /\ _info_response' = Tuple(msg.values)
    /\ asker' = Heard(msg)
    /\ UNCHANGED <<config, _rewrites, _rewrites_reverse, _valid_addresses,
                   _callback_function, loader, caller, worker>>

Receive(msg) == Dispatch(msg, _update_state(msg.addr, msg.values))

(***************************************************************************)
(* Synchronisation: reload, load_scene and set_value coroutines, with the  *)
(* device's messages arriving between any two steps.                       *)
(***************************************************************************)
Next ==
    \/ Reload
    \/ \E n \in SceneNumbers : LoadScene(n)
    \/ LoadSceneSettled
    \/ LoadInitialNext
    \/ \E c \in SetValueCalls : SetValue(c.address, c.value)
    \/ SetValueQuery
    \/ SetValueReturn
    \/ \E msg \in Messages : Receive(msg)

Spec == Init /\ [][Next]_vars

(***************************************************************************)
(* Subscription: subscribe workers, unsubscribe and reload, with the       *)
(* device's messages.                                                      *)
(***************************************************************************)
InitSubscription == InitMixer({MixerType(BusTable)})

NextSubscription ==
    \/ Reload
    \/ LoadInitialNext
    \/ \E w \in Workers, cb \in Callbacks : Subscribe(w, cb)
    \/ \E w \in Workers : WorkerCheck(w)
    \/ \E w \in Workers : WorkerWake(w)
    \/ Unsubscribe
    \/ UnsubscribeReturn
    \/ \E msg \in SubscriptionMessages : Receive(msg)

SpecSubscription == InitSubscription /\ [][NextSubscription]_vars

\* the event loop runs every coroutine that is ready: a worker whose send or
\* sleep has ended takes its next step
FairSubscription ==
    /\ SpecSubscription
    /\ \A w \in Workers : WF_vars(WorkerCheck(w)) /\ WF_vars(WorkerWake(w))

(***************************************************************************)
(* The rewrite example: the table with one rewritten row.                  *)
(***************************************************************************)
InitExample == InitMixer({MixerType(ExampleTable)})

NextExample ==
    \/ Reload
    \/ LoadInitialNext
    \/ \E c \in ExampleCalls : SetValue(c.address, c.value)
    \/ SetValueQuery
    \/ SetValueReturn
    \/ \E msg \in ExampleMessages : Receive(msg)

SpecExample == InitExample /\ [][NextExample]_vars

(***************************************************************************)
(* Queries: query and validate_connection next to reload, one subscribe    *)
(* worker and unsubscribe, with the device's messages.                     *)
(***************************************************************************)
NextQuery ==
    \/ \E address \in QueryAddresses : Query(address)
    \/ QueryReturn
    \/ ValidateConnection
    \/ ValidateWait
    \/ ValidateReturn
    \/ Reload
    \/ LoadInitialNext
    \/ \E cb \in Callbacks : Subscribe(1, cb)
    \/ WorkerCheck(1)
    \/ WorkerWake(1)
    \/ Unsubscribe
    \/ UnsubscribeReturn
    \/ \E msg \in QueryMessages : Receive(msg)

SpecQuery == InitSubscription /\ [][NextQuery]_vars

(***************************************************************************)
(* The functions on their own: _load_initial's expansion, the canonical    *)
(* key and _redo_padding, applied to tables built from structured entries. *)
(* An entry is a literal prefix, a placeholder (name and width, width 0    *)
(* for a placeholder without width) and a suffix; an entry without a name  *)
(* is a plain address.                                                     *)
(***************************************************************************)
NumFxName == <<"n","u","m","_","f","x">>

Templated(prefix, name, width, suffix, rewritten, rprefix, rsuffix) ==
    [prefix |-> prefix, name |-> name, width |-> width, suffix |-> suffix,
     rewritten |-> rewritten, rprefix |-> rprefix, rsuffix |-> rsuffix]

Plain(address) == Templated(address, <<>>, 0, <<>>, FALSE, <<>>, <<>>)

PlainRewritten(address, rewrite) == Templated(address, <<>>, 0, <<>>, TRUE, rewrite, <<>>)

ChannelEntry(width, rewritten) ==
    Templated(<<"/","c","h","/">>, NumChannelsName, width, <<"/","m","i","x","/","f","a","d","e","r">>,
              rewritten, <<"/","c","h","/">>, <<"/","f","a","d","e","r","/","l","e","v","e","l">>)

BusEntry(width, rewritten) ==
    Templated(<<"/","b","u","s","/">>, NumBusName, width, <<"/","m","i","x","/","o","n">>,
              rewritten, <<"/","b","u","s","/">>, <<"/","o","n">>)

FnWidths == 0..3

FnEntries ==
    {ChannelEntry(w, rw) : w \in FnWidths, rw \in BOOLEAN}
        \cup {BusEntry(w, rw) : w \in FnWidths, rw \in BOOLEAN}

\* the returns of an X-Air mixer: the numbered effect returns and the aux return
RtnTable ==
    << Templated(<<"/","r","t","n","/">>, NumFxName, 0, <<"/","m","i","x","/","f","a","d","e","r">>, FALSE, <<>>, <<>>),
       Plain(<<"/","r","t","n","/","a","u","x","/","m","i","x","/","f","a","d","e","r">>) >>

MixedTable ==
    << Plain(<<"/","x","i","n","f","o">>),
       BusEntry(0, FALSE),
       PlainRewritten(<<"/","l","r","/","m","i","x","/","f","a","d","e","r">>, <<"/","m","a","i","n","/","s","t","/","m","i","x","/","f","a","d","e","r">>) >>

FnTables == {<<e>> : e \in FnEntries} \cup {RtnTable, MixedTable}

FnCounts == [n \in {NumChannelsName, NumBusName, NumFxName} |->
               IF n = NumChannelsName THEN NumChannels
               ELSE IF n = NumBusName THEN NumBus ELSE NumBus + 2]

\* the placeholder as it is written in a template
Placeholder(name, width) ==
    IF name = <<>> THEN <<>>
    ELSE <<"{">> \o name \o (IF width = 0 THEN <<>> ELSE <<":">> \o Str(width)) \o <<"}">>

\* the row of addresses_to_load for an entry
Row(e) ==
    IF e.rewritten
    THEN << e.prefix \o Placeholder(e.name, e.width) \o e.suffix,
            e.rprefix \o Placeholder(e.name, e.width) \o e.rsuffix >>
    ELSE << e.prefix \o Placeholder(e.name, e.width) \o e.suffix >>

Rows(t) == [i \in 1..Len(t) |-> Row(t[i])]

InitFn ==
    /\ \E t \in FnTables : addresses_to_load = Rows(t)
    /\ attributes = FnCounts
    /\ InitClient

\* the expansion of lines 148-172 on a client without rewrites
FnLoaded(e) ==
    /\ fn.op = "none"
    /\ fn' = [op |-> "_load_initial", arg |-> <<>>, raised |-> e.raised,
              address |-> <<>>, expanded |-> e.expanded, rewrites |-> e.rewrites]
    /\ UNCHANGED <<addresses_to_load, attributes, _state, _rewrites, _rewrites_reverse,
                   _valid_addresses, _callback_function, _info_response, loader,
                   caller, worker, asker, receipt>>

FnLoadInitial == FnLoaded(LoadInitialExpand(EmptyDict))

\* the canonical key of the i-th expanded address (lines 187 and 195) with
\* its underscores turned back into separators (line 238)
FnStateKey(i) ==
    /\ fn.op # "none"
    /\ i \in 1..Len(fn.expanded)
    /\ fn' = [fn EXCEPT !.op = "_generate_state_key",
                        !.arg = fn.expanded[i],
                        !.raised = FALSE,
                        !.address = Replace(StripPadding(_generate_state_key(fn.expanded[i])),
                                            <<"_">>, <<"/">>)]
    /\ UNCHANGED <<addresses_to_load, attributes, _state, _rewrites, _rewrites_reverse,
                   _valid_addresses, _callback_function, _info_response, loader,
                   caller, worker, asker, receipt>>

\* _redo_padding applied to the address FnStateKey left
FnPadded(r) ==
    /\ fn.op = "_generate_state_key"
    /\ fn' = [fn EXCEPT !.op = "_redo_padding", !.raised = r.raised,
                        !.address = r.address]
    /\ UNCHANGED <<addresses_to_load, attributes, _state, _rewrites, _rewrites_reverse,
                   _valid_addresses, _callback_function, _info_response, loader,
                   caller, worker, asker, receipt>>

FnRedoPadding == FnPadded(_redo_padding(fn.address))

NextFn ==
    \/ FnLoadInitial
    \/ \E i \in 1..(NumChannels + NumBus) : FnStateKey(i)
    \/ FnRedoPadding

SpecFn == InitFn /\ [][NextFn]_vars

(***************************************************************************)
(* Properties of the synchronisation runs (Spec).                          *)
(***************************************************************************)
Range(s) == {s[i] : i \in DOMAIN s}

\* the queries _load_initial sends for a list of addresses
Queries(addresses) == [i \in 1..Len(addresses) |-> Sent(addresses[i], NoParam)]

\* the concrete addresses of BusTable, row by row and index by index
BusAddresses ==
    [i \in 1..NumBus |-> <<"/","b","u","s","/">> \o Zfill(Str(i), Len(Str(NumBus))) \o <<"/","m","i","x","/","f","a","d","e","r">>]
        \o [i \in 1..NumBus |-> <<"/","b","u","s","/">> \o Zfill(Str(i), Len(Str(NumBus))) \o <<"/","m","i","x","/","o","n">>]
        \o << <<"/","l","r","/","m","i","x","/","f","a","d","e","r">> >>

\* a load_scene run that has returned after sending all it sends
LoadSceneDone ==
    /\ addresses_to_load = BusTable
    /\ loader.op = "load_scene"
    /\ loader.pc = "idle"

\* C1 as the spec states it: after the settle delay load_scene does what
\* reload does, it clears the state mirror and then queries every concrete
\* address of the table.
C1_LoadSceneClearsAndQueries ==
    /\ [][LoadSceneSettled => _state' = EmptyDict]_vars
    /\ [](LoadSceneDone =>
            \E n \in SceneNumbers :
               loader.sent = <<Sent(cmd_scene_load, Num(n))>> \o Queries(BusAddresses))

\* C1, amended: load_scene sends the scene-load command with its parameter
\* and, after the settle delay, runs the same load as reload but keeps the
\* state mirror as it is: the step after the delay leaves the mirror
\* unchanged, and a finished load_scene has sent the scene command followed
\* by one query for every concrete address of the table, in the order in
\* which a finished reload has sent them, whatever was received in between.
C1_LoadSceneQueriesKeepsMirror ==
    /\ [][LoadSceneSettled => _state' = _state]_vars
    /\ [](LoadSceneDone =>
            \E n \in SceneNumbers :
               loader.sent = <<Sent(cmd_scene_load, Num(n))>> \o Queries(BusAddresses))
    /\ [](addresses_to_load = BusTable /\ loader.op = "reload" /\ loader.pc = "idle" =>
            loader.sent = Queries(BusAddresses))

\* a load_scene has finished with all its queries sent and the mirror still
\* holds a received value
C1_Witness ==
    /\ LoadSceneDone
    /\ Len(loader.sent) = 1 + Len(BusAddresses)
    /\ _state # EmptyDict

\* C3: every key of the state mirror that ends in _fader has a companion
\* key <key>_db in the mirror, whose value is fader_to_db of the value
\* stored under the fader key.
C3_FaderHasDb ==
    \A k \in DOMAIN _state :
       EndsWith(k, <<"_","f","a","d","e","r">>) =>
          /\ (k \o <<"_","d","b">>) \in DOMAIN _state
          /\ _state[k \o <<"_","d","b">>] = fader_to_db(_state[k])

\* a fader key holds the second value received for it, with its decibels
C3_Witness ==
    /\ <<"/","b","u","s","/","1","/","m","i","x","_","f","a","d","e","r">> \in DOMAIN _state
    /\ _state[<<"/","b","u","s","/","1","/","m","i","x","_","f","a","d","e","r">>] = Num(10)
    /\ _state[<<"/","b","u","s","/","1","/","m","i","x","_","f","a","d","e","r","_","d","b">>] = Num(-540)
    /\ <<"/","l","r","/","m","i","x","_","f","a","d","e","r">> \notin DOMAIN _state

\* C5: set_value never writes the state mirror: every step of the set_value
\* coroutine (a step that moves caller) leaves the mirror unchanged, it sends the converted value to the resolved address and then
\* a query without value to the same address, and the mirror changes only
\* by a reload or by the receipt of a message for a valid address.
C5_SetValueSendsThenQueries ==
    /\ [][caller' # caller => _state' = _state]_vars
    /\ [](caller.op = "set_value" /\ caller.pc = "sv_sent" =>
            /\ Len(caller.sent) = 1
            /\ caller.sent[1].addr = caller.address
            /\ caller.sent[1].param.kind = "num")
    /\ [](caller.op = "set_value" /\ caller.pc \in {"sv_query", "idle"} =>
            /\ Len(caller.sent) = 2
            /\ caller.sent[1].addr = caller.address
            /\ caller.sent[1].param.kind = "num"
            /\ caller.sent[2] = Sent(caller.address, NoParam))
    /\ [][_state' # _state =>
            \/ Reload
            \/ \E msg \in Messages : Receive(msg) /\ msg.addr \in _valid_addresses]_vars

\* set_value has returned after its two sends to a valid address and the
\* mirror holds nothing
C5_Witness ==
    /\ caller.op = "set_value"
    /\ caller.pc = "idle"
    /\ Len(caller.sent) = 2
    /\ caller.address \in _valid_addresses
    /\ _state = EmptyDict

\* C9 as the spec states it: expansion is never fatal; a row whose
\* placeholder names no attribute of the client is passed through as one
\* address, and the rows after it are still expanded and queried.
C9_UnresolvedPassesThrough ==
    /\ loader.pc # "raised"
    /\ (addresses_to_load = BadTable /\ loader.op # "none" /\ loader.pc = "idle" =>
          /\ Sent(<<"/","f","x","/","{","n","u","m","_","f","x","}","/","t","y","p","e">>, NoParam) \in Range(loader.sent)
          /\ Sent(<<"/","b","u","s","/","1","/","m","i","x","/","o","n">>, NoParam) \in Range(loader.sent))

(***************************************************************************)
(* Properties of the subscription runs (SpecSubscription).                 *)
(***************************************************************************)
\* C2: the receipt of a message whose address is not in _valid_addresses
\* yields an empty update list, leaves the state mirror unchanged and
\* invokes no callback, before the first reload as well as after it.
C2_InvalidAddressDropped ==
    [][\A msg \in SubscriptionMessages :
          Receive(msg) /\ msg.addr \notin _valid_addresses =>
             /\ receipt'.updates = <<>>
             /\ receipt'.notified = <<>>
             /\ _state' = _state]_vars

\* before the first reload, with a callback set, a message for an address of
\* the table has been received and dropped
C2_Witness ==
    /\ _callback_function # None
    /\ _valid_addresses = {}
    /\ receipt.addr = <<"/","b","u","s","/","1","/","m","i","x","/","f","a","d","e","r">>
    /\ receipt.updates = <<>>
    /\ receipt.notified = <<>>
    /\ _state = EmptyDict

\* C8 as the spec states it: while a callback is set, every message received
\* results in the callback being invoked for it.
C8_EveryMessageToCallback ==
    [][\A msg \in SubscriptionMessages :
          Receive(msg) /\ _callback_function # None => Len(receipt'.notified) >= 1]_vars

\* C8, amended: while a callback is set, a received message never writes
\* the response slot, the callback is invoked once for every record of the
\* update list, and that list is not empty exactly when the address of the
\* message is in _valid_addresses: a message for another address invokes no
\* callback.
C8_ValidMessagesToCallback ==
    [][\A msg \in SubscriptionMessages :
          Receive(msg) /\ _callback_function # None =>
             /\ _info_response' = _info_response
             /\ receipt'.notified = receipt'.updates
             /\ (msg.addr \in _valid_addresses <=> Len(receipt'.notified) >= 1)]_vars

\* a fader message has been received with a callback set: the callback was
\* invoked for the fader record and for the decibel record
C8_Witness ==
    /\ _callback_function # None
    /\ receipt.addr = <<"/","b","u","s","/","1","/","m","i","x","/","f","a","d","e","r">>
    /\ Len(receipt.notified) = 2
    /\ _info_response = NoResponse

\* C10: once the callback is cleared and not set again, a worker in its loop
\* returns; it wakes at most once with the callback cleared before it
\* returns; and a worker returns only when the callback is cleared.
C10_ClearedCallbackEndsLoop ==
    /\ \A w \in Workers :
          (worker[w].pc \in {"sent", "sleep"} /\ _callback_function = None)
             ~> (worker[w].pc = "done" \/ _callback_function # None)
    /\ [](\A w \in Workers : worker[w].stale <= 1)
    /\ [][\A w \in Workers :
             worker[w].pc # "done" /\ worker'[w].pc = "done" =>
                _callback_function = None]_vars

\* a worker has returned after one wake with the callback cleared, and
\* unsubscribe was what cleared it
C10_Witness ==
    /\ _callback_function = None
    /\ caller.op = "unsubscribe"
    /\ \E w \in Workers : worker[w].pc = "done" /\ worker[w].stale = 1

(***************************************************************************)
(* Properties of the rewrite example (SpecExample).                        *)
(***************************************************************************)
\* C7 as the spec states it: with the rewrite registered, /ch/01/mix/fader
\* with value 0.75 is stored under /ch/1/fader_level, and a derived _db key
\* holds fader_to_db of the value.
C7_RewrittenFaderHasDb ==
    [][Receive(Msg(<<"/","c","h","/","0","1","/","m","i","x","/","f","a","d","e","r">>, <<75>>))
          /\ <<"/","c","h","/","0","1","/","m","i","x","/","f","a","d","e","r">> \in _valid_addresses =>
             /\ <<"/","c","h","/","1","/","f","a","d","e","r","_","l","e","v","e","l">> \in DOMAIN _state'
             /\ _state'[<<"/","c","h","/","1","/","f","a","d","e","r","_","l","e","v","e","l">>] = Num(75)
             /\ <<"/","c","h","/","1","/","f","a","d","e","r","_","l","e","v","e","l","_","d","b">> \in DOMAIN _state'
             /\ _state'[<<"/","c","h","/","1","/","f","a","d","e","r","_","l","e","v","e","l","_","d","b">>] = fader_to_db(Num(75))]_vars

\* C7, amended: with the rewrite registered, /ch/01/mix/fader with value
\* 0.75 is stored under /ch/1/fader_level, the key of the rewritten address,
\* and that is the only write and the only update record: the key does not
\* end in _fader, so no _db key is derived, and the mirror of this table
\* never holds a _db key.
C7_RewrittenKeyWithoutDb ==
    /\ [][Receive(Msg(<<"/","c","h","/","0","1","/","m","i","x","/","f","a","d","e","r">>, <<75>>))
             /\ <<"/","c","h","/","0","1","/","m","i","x","/","f","a","d","e","r">> \in _valid_addresses =>
                /\ _state' = DictSet(_state, <<"/","c","h","/","1","/","f","a","d","e","r","_","l","e","v","e","l">>, Num(75))
                /\ receipt'.updates = <<UpdateRow(<<"/","c","h","/","1","/","f","a","d","e","r","_","l","e","v","e","l">>, Num(75))>>]_vars
    /\ [](\A k \in DOMAIN _state : ~EndsWith(k, <<"_","d","b">>))

\* the message has been received and stored under the rewritten key alone
C7_Witness ==
    /\ receipt.addr = <<"/","c","h","/","0","1","/","m","i","x","/","f","a","d","e","r">>
    /\ receipt.updates = <<UpdateRow(<<"/","c","h","/","1","/","f","a","d","e","r","_","l","e","v","e","l">>, Num(75))>>
    /\ DOMAIN _state = {<<"/","c","h","/","1","/","f","a","d","e","r","_","l","e","v","e","l">>}
    /\ _state[<<"/","c","h","/","1","/","f","a","d","e","r","_","l","e","v","e","l">>] = Num(75)

(***************************************************************************)
(* Properties of the functions (SpecFn).                                   *)
(***************************************************************************)
EntryCount(e) == FnCounts[e.name]

\* the explicit width, or the number of digits of the count
EntryWidth(e) == IF e.width # 0 THEN e.width ELSE Len(Str(EntryCount(e)))

Concrete(e, i) == e.prefix \o Zfill(Str(i), EntryWidth(e)) \o e.suffix

ConcreteRewrite(e, i) == e.rprefix \o Zfill(Str(i), EntryWidth(e)) \o e.rsuffix

ExpectedRow(e) ==
    IF e.name = <<>> THEN <<e.prefix>>
    ELSE [i \in 1..EntryCount(e) |-> Concrete(e, i)]

RECURSIVE ExpectedAddresses(_)
ExpectedAddresses(t) ==
    IF t = <<>> THEN <<>> ELSE ExpectedRow(Head(t)) \o ExpectedAddresses(Tail(t))

ExpectedPairs(e) ==
    IF ~e.rewritten THEN {}
    ELSE IF e.name = <<>> THEN {<<e.prefix, e.rprefix>>}
    ELSE {<<Concrete(e, i), ConcreteRewrite(e, i)>> : i \in 1..EntryCount(e)}

ExpectedRewrites(t) == UNION {ExpectedPairs(t[j]) : j \in DOMAIN t}

Pairs(d) == {<<k, d[k]>> : k \in DOMAIN d}

\* C4: an entry with a placeholder whose name resolves to N expands to the N
\* addresses with the indices 1..N in ascending order, zero-padded to the
\* explicit width or to the number of digits of N; with a rewrite template,
\* every address is registered to the rewrite with the same index; an entry
\* without placeholder expands to itself.
C4_ExpansionByIndex ==
    fn.op # "none" =>
       \A t \in FnTables :
          addresses_to_load = Rows(t) =>
             /\ fn.expanded = ExpectedAddresses(t)
             /\ Pairs(fn.rewrites) = ExpectedRewrites(t)

\* the channel entry with width 3 and a rewrite has been expanded
C4_Witness ==
    /\ fn.op = "_load_initial"
    /\ addresses_to_load = Rows(<<ChannelEntry(3, TRUE)>>)
    /\ Len(fn.expanded) = NumChannels
    /\ fn.expanded[1] = <<"/","c","h","/","0","0","1","/","m","i","x","/","f","a","d","e","r">>
    /\ fn.rewrites[<<"/","c","h","/","0","0","1","/","m","i","x","/","f","a","d","e","r">>] = <<"/","c","h","/","0","0","1","/","f","a","d","e","r","/","l","e","v","e","l">>

\* C6 as the spec states it: for every expanded address, _redo_padding
\* applied to its canonical key with the underscores turned into separators
\* gives an address with the same canonical key.
C6_PaddingLeftInverse ==
    fn.op = "_redo_padding" =>
       /\ ~fn.raised
       /\ StripPadding(_generate_state_key(fn.address))
             = StripPadding(_generate_state_key(fn.arg))

\* the same for the tables in which no plain address begins with the literal
\* prefix of a templated row
PaddingLeftInverseApart ==
    addresses_to_load # Rows(RtnTable) => C6_PaddingLeftInverse

\* and there _redo_padding gives back the expanded address itself
PaddingRestored ==
    fn.op = "_redo_padding" /\ addresses_to_load # Rows(RtnTable) => fn.address = fn.arg

(***************************************************************************)
(* Properties of the query runs (SpecQuery).                               *)
(***************************************************************************)
\* C11: while a callback is set the response slot is empty and a received
\* message leaves it unchanged, so a query or a validate_connection that
\* returns while the callback is set returns the empty slot (False for
\* validate_connection) whatever the device answered; without a callback
\* every received message overwrites the slot with its values.
C11_SlotOnlyWithoutCallback ==
    /\ [](_callback_function # None => _info_response = NoResponse)
    /\ [][\A msg \in QueryMessages :
             Receive(msg) =>
                _info_response' = IF _callback_function # None THEN _info_response
                                  ELSE Tuple(msg.values)]_vars
    /\ [][QueryReturn /\ _callback_function # None => asker'.result = NoResponse]_vars
    /\ [][ValidateReturn /\ _callback_function # None =>
             asker'.pc = "idle" /\ asker'.result = Bool(FALSE)]_vars

\* a query has returned the empty slot with the callback set, although
\* messages were received between its send and its return
C11_Witness ==
    /\ _callback_function # None
    /\ asker.op = "query"
    /\ asker.pc = "idle"
    /\ asker.result = NoResponse
    /\ asker.heard = {Tuple(<<75>>), Tuple(<<1, 2, 3, 4>>)}

\* a step in which some coroutine has sent a message
SomeSend ==
    \/ loader'.sent # loader.sent /\ loader'.sent # <<>>
    \/ caller'.sent # caller.sent /\ caller'.sent # <<>>
    \/ \E w \in Workers : worker[w].pc # "sent" /\ worker'[w].pc = "sent"
    \/ asker.pc # "sent" /\ asker'.pc = "sent"

\* C12: every send clears the response slot, and what query returns is the
\* empty slot or the values of a message received after the query's own
\* send, whatever other sends and receipts come between.
C12_QueryNotStale ==
    /\ [][SomeSend => _info_response' = NoResponse]_vars
    /\ [](asker.op = "query" /\ asker.pc = "idle" =>
            asker.result = NoResponse \/ asker.result \in asker.heard)

\* a query has returned the values of the second of two messages received
\* after its send
C12_Witness ==
    /\ asker.op = "query"
    /\ asker.pc = "idle"
    /\ asker.result = Tuple(<<75>>)
    /\ asker.heard = {Tuple(<<75>>), Tuple(<<1, 2, 3, 4>>)}
    /\ receipt.addr = <<"/","b","u","s","/","1","/","m","i","x","/","f","a","d","e","r">>


\* the queries a reload or load_scene run has sent so far
LoaderQueries == IF loader.op = "load_scene" THEN Tail(loader.sent) ELSE loader.sent

QueriedAddresses == {LoaderQueries[i].addr : i \in DOMAIN LoaderQueries}

\* C13: during reload and load_scene the queries are sent one per concrete
\* address in the order of the table and of the indices: what a run has sent
\* is at every moment a beginning of that list, and all of it when the run
\* has returned; every address queried so far is in _valid_addresses, and the
\* rewritten address is in _rewrites, so that a message for a queried address
\* is never dropped by _update_state.
C13_QueriesInOrderAfterMarking ==
    /\ [](addresses_to_load = BusTable =>
            /\ Len(LoaderQueries) <= Len(BusAddresses)
            /\ LoaderQueries = SubSeq(Queries(BusAddresses), 1, Len(LoaderQueries))
            /\ loader.op # "none" /\ loader.pc = "idle" =>
                  Len(LoaderQueries) = Len(BusAddresses))
    /\ [](QueriedAddresses \subseteq _valid_addresses)
    /\ [](<<"/","l","r","/","m","i","x","/","f","a","d","e","r">> \in QueriedAddresses =>
            /\ <<"/","l","r","/","m","i","x","/","f","a","d","e","r">> \in DOMAIN _rewrites
            /\ _rewrites[<<"/","l","r","/","m","i","x","/","f","a","d","e","r">>] = <<"/","m","a","i","n","/","s","t","/","m","i","x","/","f","a","d","e","r">>)
    /\ [][\A msg \in Messages :
             Receive(msg) /\ msg.addr \in QueriedAddresses => receipt'.updates # <<>>]_vars

\* a reload has sent its last query, the one of the rewritten address, and
\* the answer to it has been stored under the rewritten key
C13_Witness ==
    /\ addresses_to_load = BusTable
    /\ loader.op = "reload"
    /\ loader.pc = "loading"
    /\ loader.idx = Len(BusAddresses)
    /\ receipt.addr = <<"/","l","r","/","m","i","x","/","f","a","d","e","r">>
    /\ receipt.updates # <<>>
    /\ <<"/","m","a","i","n","/","s","t","/","m","i","x","_","f","a","d","e","r">> \in DOMAIN _state

\* the pairs of the inverse of a map
InversePairs(d) == {<<d[k], k>> : k \in DOMAIN d}

\* a step in which set_value passes lines 240-243 and sends
SetValueResolves == caller.pc # "sv_sent" /\ caller'.pc = "sv_sent"

\* C14 as the spec states it: the first set_value that reaches
\* _build_reverse_rewrite builds the reverse map, and after it the reverse
\* map never changes again, also when that first set_value came before any
\* reload.
C14_ReverseBuiltOnce ==
    [][caller.sent # <<>> => _rewrites_reverse' = _rewrites_reverse]_vars

\* C14, amended: the reverse map changes in set_value only; a set_value that
\* finds it empty builds it by inverting the forward map as it is then, also
\* when an earlier set_value has built an empty map before any reload; once
\* the reverse map is not empty, it never changes again.
C14_ReverseFixedOnceNonEmpty ==
    /\ [][_rewrites_reverse' # _rewrites_reverse => SetValueResolves]_vars
    /\ [][SetValueResolves /\ _rewrites_reverse = EmptyDict =>
             Pairs(_rewrites_reverse') = InversePairs(_rewrites)]_vars
    /\ [][_rewrites_reverse # EmptyDict => _rewrites_reverse' = _rewrites_reverse]_vars

\* a set_value during a reload has resolved the rewritten address through a
\* reverse map that is not empty
C14_Witness ==
    /\ _rewrites_reverse # EmptyDict
    /\ loader.op = "reload"
    /\ loader.pc = "loading"
    /\ caller.pc = "sv_query"
    /\ caller.address = <<"/","l","r","/","m","i","x","/","f","a","d","e","r">>

\* C15: whenever set_value resolves an address, the reverse map it resolves
\* through is the inverse of the forward map of that moment, and an address
\* the forward map rewrites to is sent as the address it is rewritten from.
C15_ReverseIsInverse ==
    /\ [][SetValueResolves => Pairs(_rewrites_reverse') = InversePairs(_rewrites')]_vars
    /\ [][SetValueResolves /\ _rewrites # EmptyDict =>
             caller'.address \notin {_rewrites[k] : k \in DOMAIN _rewrites}]_vars

\* a set_value after a finished reload has sent the address of the table for
\* the rewritten address it was called with
C15_Witness ==
    /\ _rewrites_reverse # EmptyDict
    /\ loader.op = "reload"
    /\ loader.pc = "idle"
    /\ caller.pc = "sv_sent"
    /\ caller.sent = <<Sent(<<"/","l","r","/","m","i","x","/","f","a","d","e","r">>, Num(75))>>
    /\ _state = EmptyDict

\* C16 as the spec states it: _redo_padding never fails and gives back an
\* address that no row matches as it is, so that set_value sends it: a
\* set_value of an address that begins like the bus rows but has no index
\* sends that address with the value.
C16_UnmatchedPassesThrough ==
    [][SetValue(<<"/","b","u","s","/","m","i","x","_","f","a","d","e","r">>, Num(75)) =>
          /\ caller'.pc = "sv_sent"
          /\ caller'.sent = <<Sent(<<"/","b","u","s","/","m","i","x","/","f","a","d","e","r">>, Num(75))>>]_vars

\* the steps of a worker: the command of line 105 and the renew of line 111
WorkerSubscribes(w) == worker[w].pc \in {"idle", "done"} /\ worker'[w].pc = "sent"

WorkerRenews(w) == worker[w].pc = "sleep" /\ worker'[w].pc = "sent"

\* a worker that is in the loop of lines 109-111
InLoop(w) == worker[w].pc \in {"sent", "sleep"}

\* C17: subscribe sends /xremote first; every renew command of a worker
\* started by subscribe is /xremote, sent when a sleep of the worker ends;
\* and a worker in its loop renews again and again unless the callback is
\* cleared: if from some moment on the callback stays set and the worker is
\* in its loop, the worker sleeps infinitely often and has sent a renew
\* command infinitely often.
C17_RenewsWhileCallbackSet ==
    /\ [][\A w \in Workers :
             WorkerSubscribes(w) \/ WorkerRenews(w) =>
                worker'[w].sent = Sent(<<"/","x","r","e","m","o","t","e">>, NoParam)]_vars
    /\ [][\A w \in Workers :
             worker'[w].renewed /\ ~worker[w].renewed => WorkerRenews(w)]_vars
    /\ \A w \in Workers :
          <>[](_callback_function # None /\ InLoop(w)) =>
             /\ []<>(worker[w].pc = "sleep")
             /\ []<>(worker[w].pc = "sent" /\ worker[w].renewed)

\* the first worker has renewed with the callback set, and no other worker
\* was started
C17_Witness ==
    /\ _callback_function # None
    /\ worker[1].pc = "sent"
    /\ worker[1].renewed
    /\ worker[1].stale = 0
    /\ worker[1].sent = Sent(<<"/","x","r","e","m","o","t","e">>, NoParam)
    /\ worker[2].pc = "idle"

\* the keys of the records of an update list
Reported(updates) == {updates[i].property : i \in DOMAIN updates}

\* the mirror after holds every record of the list, and differs from the
\* mirror before in the reported keys only
WritesOnly(updates, before, after) ==
    /\ \A i \in DOMAIN updates :
          /\ updates[i].property \in DOMAIN after
          /\ after[updates[i].property] = updates[i].value
    /\ DOMAIN after = DOMAIN before \cup Reported(updates)
    /\ \A k \in DOMAIN before \ Reported(updates) : after[k] = before[k]

\* one record, or the record of a fader key followed by the record of its
\* decibel key
FaderThenDb(updates) ==
    /\ Len(updates) = IF EndsWith(updates[1].property, <<"_","f","a","d","e","r">>) THEN 2 ELSE 1
    /\ ~EndsWith(updates[1].property, <<"_","d","b">>)
    /\ Len(updates) = 2 =>
          /\ updates[2].property = updates[1].property \o <<"_","d","b">>
          /\ updates[2].value = fader_to_db(updates[1].value)

\* C18: the update list of a receipt is the list of the writes of the mirror
\* in that receipt: the mirror changes in the reported keys only and holds
\* the reported values; the list of a valid address has one record, or two
\* for a key that ends in _fader, the fader record and then the record of
\* the key with _db and fader_to_db of the same value, so no _db record comes
\* without its fader record; and with a callback set the callback gets just
\* the records of the list, the mirror holding them already.
C18_UpdatesAreWrites ==
    [][\A msg \in SubscriptionMessages :
          Receive(msg) =>
             /\ receipt'.updates = <<>> => _state' = _state
             /\ receipt'.updates # <<>> =>
                   /\ WritesOnly(receipt'.updates, _state, _state')
                   /\ FaderThenDb(receipt'.updates)
             /\ receipt'.notified =
                   IF _callback_function # None THEN receipt'.updates ELSE <<>>]_vars

\* with a callback set, a fader message and a switch message have been
\* received: the mirror holds the fader, its decibel value and the switch,
\* and the callback got the one record of the switch
C18_Witness ==
    /\ _callback_function # None
    /\ DOMAIN _state = {<<"/","b","u","s","/","1","/","m","i","x","_","f","a","d","e","r">>, <<"/","b","u","s","/","1","/","m","i","x","_","f","a","d","e","r","_","d","b">>, <<"/","b","u","s","/","2","/","m","i","x","_","o","n">>}
    /\ _state[<<"/","b","u","s","/","1","/","m","i","x","_","f","a","d","e","r","_","d","b">>] = fader_to_db(Num(75))
    /\ receipt.addr = <<"/","b","u","s","/","2","/","m","i","x","/","o","n">>
    /\ receipt.notified = <<[property |-> <<"/","b","u","s","/","2","/","m","i","x","_","o","n">>, value |-> Bool(TRUE)]>>

\* C19 as the spec states it: after unsubscribe has cleared the callback, and
\* as long as no subscribe sets it again, no worker sends a renew command.
C19_NoRenewAfterUnsubscribe ==
    [][\A w \in Workers :
          _callback_function = None /\ caller.op = "unsubscribe" => ~WorkerRenews(w)]_vars

\* C20 as the spec states it: at no moment two workers are in the keepalive
\* loop; in particular never two workers that have both renewed sleep with
\* the callback set.
C20_OneKeepaliveLoop ==
    \A v, w \in Workers :
       v # w => ~(/\ _callback_function # None
                  /\ worker[v].pc = "sleep" /\ worker[v].renewed
                  /\ worker[w].pc = "sleep" /\ worker[w].renewed)
====
